---- MODULE Spec2Model ----
(***************************************************************************)
(* Highlight Non-ASCII (Obsidian plugin): the run detection of the editor  *)
(* extension (buildDecorations), the reading-view annotator                *)
(* (highlightNonAsciiInReading), the allowlist builder, the frontmatter    *)
(* suppression policy, and the loading, saving and propagation of the      *)
(* settings, modelled from src/src/main.ts; the annotator that built a     *)
(* markup string is modelled from src/src/global.d.ts.                     *)
(*                                                                         *)
(* A string is a sequence of UTF-16 code units (naturals).  A "char" as    *)
(* produced by Array.from(string) is a string of one or two code units.    *)
(***************************************************************************)
EXTENDS Integers, Sequences, FiniteSets, TLC

VARIABLES
    doc,            \* view.state.doc of the editor, as a string
    visibleRanges,  \* view.visibleRanges: sequence of [from, to]
    field,          \* value of settingsField in the editor state
    decorations,    \* highlightPlugin.decorations (sequence of [from, to])
    lastBuild,      \* the builder of the latest buildDecorations run
    settings,       \* plugin.settings: [enabled, allowedChars]
    frontmatter,    \* metadataCache: file -> value of "highlight-non-ascii"
    leaves,         \* workspace leaves: leaf -> the markdown editor it holds
    active,         \* the active leaf, 0 when there is none
    rendered,       \* the latest run of the reading view post processor
    saves,          \* the saveData calls in flight, the latest outcome
    data,           \* the record loadData returns
    styleEl,        \* customStyleEl.textContent
    tr              \* the effects of the latest transaction (SpecField)

editorVars == <<doc, visibleRanges, field, decorations, lastBuild>>
workspaceVars == <<settings, frontmatter, leaves, active, rendered>>
hostVars == <<saves, data, styleEl, tr>>
vars == <<doc, visibleRanges, field, decorations, lastBuild,
          settings, frontmatter, leaves, active, rendered,
          saves, data, styleEl, tr>>

----------------------------------------------------------------------------
(* Bounds *)

MaxChars == 4       \* codepoints in a document
MaxRanges == 2      \* visible ranges of a view
MaxLeaves == 2      \* workspace leaves
MaxNodeChars == 4   \* codepoints in a rendered text node

----------------------------------------------------------------------------
(* Strings, code units, codepoints *)

AsciiMax == 127     \* 0x7f

\* The characters documents are written with: "a", U+00E9, U+1F600.
DocChars == { <<97>>, <<233>>, <<55357, 56832>> }

\* The raw allowlist strings the settings tab may hold.
AllowStrings == { <<>>, <<55357, 56832, 32, 55357, 56832>> }

IsHighSurrogate(u) == u >= 55296 /\ u <= 56319
IsLowSurrogate(u) == u >= 56320 /\ u <= 57343

\* String.prototype.slice(n) for n >= 0
Slice(s, n) == SubSeq(s, n + 1, Len(s))

\* Array.from(string): iteration by codepoint; a lone surrogate is one char
RECURSIVE ArrayFrom(_)
ArrayFrom(s) ==
    IF s = <<>> THEN <<>>
    ELSE IF Len(s) >= 2 /\ IsHighSurrogate(s[1]) /\ IsLowSurrogate(s[2])
         THEN <<SubSeq(s, 1, 2)>> \o ArrayFrom(Slice(s, 2))
         ELSE <<SubSeq(s, 1, 1)>> \o ArrayFrom(Slice(s, 1))

\* ch.codePointAt(0)
CodePointAt0(ch) ==
    IF Len(ch) >= 2 /\ IsHighSurrogate(ch[1]) /\ IsLowSurrogate(ch[2])
    THEN (ch[1] - 55296) * 1024 + (ch[2] - 56320) + 65536
    ELSE ch[1]

\* White space as String.prototype.trim removes it
IsWhiteSpace(c) ==
    \/ c \in {9, 10, 11, 12, 13, 32, 160, 5760, 8232, 8233, 8239, 8287,
              12288, 65279}
    \/ (c >= 8192 /\ c <= 8202)

RECURSIVE BuildAllowedFrom(_, _)
BuildAllowedFrom(chars, set) ==
    IF chars = <<>> THEN set
    ELSE LET ch == Head(chars)
         IN  IF IsWhiteSpace(CodePointAt0(ch)) /\ ch # <<160>>
             THEN BuildAllowedFrom(Tail(chars), set)
             ELSE BuildAllowedFrom(Tail(chars), set \cup {ch})

\* a builder that would iterate the string by code unit
buildAllowedSet_ByCodeUnit(allowedChars) ==
    BuildAllowedFrom([k \in 1..Len(allowedChars) |-> <<allowedChars[k]>>], {})

buildAllowedSet(allowedChars) == BuildAllowedFrom(ArrayFrom(allowedChars), {})

\* code > 0x7f && !allowedSet.has(ch)
ShouldHighlight(ch, allowedSet) ==
    CodePointAt0(ch) > AsciiMax /\ ch \notin allowedSet

----------------------------------------------------------------------------
(* RangeSetBuilder: the add calls, and the rejection of an unsorted add *)

NewBuilder == [calls |-> <<>>, threw |-> FALSE]

BuilderAdd(b, from, to) ==
    IF b.threw THEN b
    ELSE [calls |-> Append(b.calls, [from |-> from, to |-> to]),
          threw |-> b.calls # <<>> /\ from < b.calls[Len(b.calls)].from]

----------------------------------------------------------------------------
(* buildDecorations *)

\* the inner "peek ahead" loop: code units of the leading flagged chars
RECURSIVE PeekAhead(_, _)
PeekAhead(remaining, allowedSet) ==
    IF remaining = <<>> THEN 0
    ELSE IF ShouldHighlight(Head(remaining), allowedSet)
         THEN Len(Head(remaining)) + PeekAhead(Tail(remaining), allowedSet)
         ELSE 0

\* the loop "for (const ch of Array.from(text))" from its k-th element on,
\* with the loop variables i and pos and the builder b
RECURSIVE ScanChars(_, _, _, _, _, _, _)
ScanChars(chars, k, text, i, pos, allowedSet, b) ==
    IF k > Len(chars) \/ b.threw THEN b
    ELSE LET ch == chars[k]
             charLen == Len(ch)
         IN  IF ShouldHighlight(ch, allowedSet)
             THEN LET remaining == ArrayFrom(Slice(text, i + charLen))
                      runEnd == pos + charLen + PeekAhead(remaining, allowedSet)
                      skippedLen == runEnd - pos
                  IN  ScanChars(chars, k + 1, text, i + skippedLen, runEnd,
                                allowedSet, BuilderAdd(b, pos, runEnd))
             ELSE ScanChars(chars, k + 1, text, i + charLen, pos + charLen,
                            allowedSet, b)

\* doc.sliceString(from, to)
SliceString(d, from, to) == SubSeq(d, from + 1, to)

\* the loop over view.visibleRanges from its r-th range on
RECURSIVE ScanRanges(_, _, _, _, _)
ScanRanges(d, ranges, r, allowedSet, b) ==
    IF r > Len(ranges) \/ b.threw THEN b
    ELSE LET from == ranges[r].from
             text == SliceString(d, from, ranges[r].to)
         IN  ScanRanges(d, ranges, r + 1, allowedSet,
                        ScanChars(ArrayFrom(text), 1, text, 0, from,
                                  allowedSet, b))

\* the fast path of the first release, which knew no frontmatter flag
buildDecorations_EnabledOnly(d, ranges, f) ==
    IF ~f.enabled THEN NewBuilder
    ELSE ScanRanges(d, ranges, 1, f.allowedSet, NewBuilder)

\* the builder after buildDecorations(view); Decoration.none adds nothing
buildDecorations(d, ranges, f) ==
    IF ~f.enabled \/ f.frontmatterDisabled THEN NewBuilder
    ELSE ScanRanges(d, ranges, 1, f.allowedSet, NewBuilder)

----------------------------------------------------------------------------
(* The editor: documents, visible ranges, transactions *)

RECURSIVE Concat(_)
Concat(ss) == IF ss = <<>> THEN <<>> ELSE Head(ss) \o Concat(Tail(ss))

CharSeqs(n) == UNION { [1..m -> DocChars] : m \in 0..n }

Docs == { Concat(cs) : cs \in CharSeqs(MaxChars) }

\* offsets of d that are not between the two units of a surrogate pair
Boundaries(d) ==
    { p \in 0..Len(d) :
        ~(p > 0 /\ p < Len(d)
          /\ IsHighSurrogate(d[p]) /\ IsLowSurrogate(d[p + 1])) }

Range(from, to) == [from |-> from, to |-> to]

\* ordered lists of at most n non-empty visible ranges that start at or after
\* lo and are separated by hidden text
RECURSIVE RangeLists(_, _, _)
RangeLists(B, lo, n) ==
    IF n = 0 THEN {<<>>}
    ELSE {<<>>} \cup
         UNION { { <<Range(x[1], x[2])>> \o rest :
                     rest \in RangeLists(B, x[2] + 1, n - 1) } :
                 x \in { y \in B \X B : lo <= y[1] /\ y[1] < y[2] } }

ViewRanges(d) == RangeLists(Boundaries(d), 0, MaxRanges)

\* a position mapped through the replacement of [p, p + del) by ins units
MapPos(x, p, del, ins) ==
    IF x <= p THEN x
    ELSE IF x >= p + del THEN x - del + ins
    ELSE p

\* visible ranges mapped through a change; emptied ranges disappear and
\* ranges that came to touch are one range
RECURSIVE MapRanges(_, _, _, _, _)
MapRanges(ranges, acc, p, del, ins) ==
    IF ranges = <<>> THEN acc
    ELSE LET from == MapPos(Head(ranges).from, p, del, ins)
             to == MapPos(Head(ranges).to, p, del, ins)
             n == Len(acc)
         IN  IF from >= to
             THEN MapRanges(Tail(ranges), acc, p, del, ins)
             ELSE IF n > 0 /\ acc[n].to >= from
             THEN MapRanges(Tail(ranges),
                            [acc EXCEPT ![n] = Range(acc[n].from, to)],
                            p, del, ins)
             ELSE MapRanges(Tail(ranges), Append(acc, Range(from, to)),
                            p, del, ins)

\* length of the char that starts at offset p of d
CharLenAt(d, p) == Len(Head(ArrayFrom(Slice(d, p))))

\* StateEffect values a transaction may carry
ToggleEffects == { [type |-> "toggleHighlight", value |-> v] : v \in BOOLEAN }
AllowlistEffects ==
    { [type |-> "updateAllowlist", value |-> s] : s \in AllowStrings }
FrontmatterEffects ==
    { [type |-> "updateFrontmatterDisabled", value |-> v] : v \in BOOLEAN }

\* the effect lists the plugin dispatches: refreshAllEditors sends a toggle
\* and an allowlist, dispatchFrontmatterUpdate a frontmatter flag
EffectLists ==
    { <<t, a>> : <<t, a>> \in ToggleEffects \X AllowlistEffects }
    \cup { <<e>> : e \in FrontmatterEffects }

\* an update in which the toggle would also clear the frontmatter flag
RECURSIVE FieldUpdate_ToggleClearsFlag(_, _)
FieldUpdate_ToggleClearsFlag(value, effects) ==
    IF effects = <<>> THEN value
    ELSE LET e == Head(effects)
             u1 == IF e.type = "toggleHighlight"
                   THEN [value EXCEPT !.enabled = e.value,
                                      !.frontmatterDisabled = FALSE]
                   ELSE value
             u2 == IF e.type = "updateAllowlist"
                   THEN [u1 EXCEPT !.allowedSet = buildAllowedSet(e.value)]
                   ELSE u1
             u3 == IF e.type = "updateFrontmatterDisabled"
                   THEN [u2 EXCEPT !.frontmatterDisabled = e.value] ELSE u2
         IN  FieldUpdate_ToggleClearsFlag(u3, Tail(effects))

\* settingsField.update
RECURSIVE FieldUpdate(_, _)
FieldUpdate(value, effects) ==
    IF effects = <<>> THEN value
    ELSE LET e == Head(effects)
             u1 == IF e.type = "toggleHighlight"
                   THEN [value EXCEPT !.enabled = e.value] ELSE value
             u2 == IF e.type = "updateAllowlist"
                   THEN [u1 EXCEPT !.allowedSet = buildAllowedSet(e.value)]
                   ELSE u1
             u3 == IF e.type = "updateFrontmatterDisabled"
                   THEN [u2 EXCEPT !.frontmatterDisabled = e.value] ELSE u2
         IN  FieldUpdate(u3, Tail(effects))

\* settingsField.create
FieldCreate(enabled, allowedChars, disabled) ==
    [enabled |-> enabled,
     allowedSet |-> buildAllowedSet(allowedChars),
     frontmatterDisabled |-> disabled]

Fields ==
    { FieldCreate(e, s, f) : <<e, s, f>> \in BOOLEAN \X AllowStrings \X BOOLEAN }

----------------------------------------------------------------------------
(* Reading view: highlightNonAsciiInReading and the post processor *)

\* /[^\x00-\x7F]/.test(textContent), for a non-empty textContent
HasNonAscii(text) == \E k \in 1..Len(text) : text[k] > AsciiMax

\* a slip that would flush without looking at the buffer's length
FlushBuffer_KeepsEmpty(children, inHighlight, buffer) ==
    Append(children, [highlight |-> inHighlight, text |-> buffer])

\* a slip that would append the plain text of a buffer only once
FlushBuffer_DropsRepeatedText(children, inHighlight, buffer) ==
    IF Len(buffer) = 0 THEN children
    ELSE IF ~inHighlight /\ \E k \in 1..Len(children) : ~children[k].highlight
    THEN children
    ELSE Append(children, [highlight |-> inHighlight, text |-> buffer])

\* flushBuffer: the buffer becomes a highlight span or a text child
FlushBuffer(children, inHighlight, buffer) ==
    IF Len(buffer) = 0 THEN children
    ELSE Append(children, [highlight |-> inHighlight, text |-> buffer])

\* the loop over Array.from(node.textContent), then the final flushBuffer
RECURSIVE AnnotateChars(_, _, _, _, _)
AnnotateChars(chars, inHighlight, buffer, children, allowedSet) ==
    IF chars = <<>> THEN FlushBuffer(children, inHighlight, buffer)
    ELSE LET ch == Head(chars)
             shouldHighlight == ShouldHighlight(ch, allowedSet)
         IN  IF shouldHighlight = inHighlight
             THEN AnnotateChars(Tail(chars), inHighlight, buffer \o ch,
                                children, allowedSet)
             ELSE AnnotateChars(Tail(chars), shouldHighlight, ch,
                                FlushBuffer(children, inHighlight, buffer),
                                allowedSet)

\* a text node of the rendered tree, and the wrapper span that replaces it;
\* parent: node.parentNode is not null
TextNode(text) ==
    [wrapper |-> FALSE, text |-> text, children |-> <<>>, parent |-> TRUE]
WrapperNode(children) ==
    [wrapper |-> TRUE, text |-> <<>>, children |-> children, parent |-> TRUE]

\* el after highlightNonAsciiInReading(el, allowedSet); el is the sequence
\* of its text nodes in document order
highlightNonAsciiInReading(el, allowedSet) ==
    [k \in 1..Len(el) |->
        IF /\ ~el[k].wrapper /\ Len(el[k].text) > 0 /\ HasNonAscii(el[k].text)
           /\ el[k].parent
        THEN WrapperNode(AnnotateChars(ArrayFrom(el[k].text), FALSE, <<>>,
                                       <<>>, allowedSet))
        ELSE el[k]]

----------------------------------------------------------------------------
(* Frontmatter suppression *)

Files == {"a.md", "b.md"}

\* values the frontmatter key may hold, with their JavaScript type
Undefined == [type |-> "undefined", v |-> ""]
BoolTrue == [type |-> "boolean", v |-> "true"]
BoolFalse == [type |-> "boolean", v |-> "false"]
StrTrue == [type |-> "string", v |-> "true"]
StrFalse == [type |-> "string", v |-> "false"]
NumZero == [type |-> "number", v |-> "0"]
FmValues == {Undefined, BoolTrue, BoolFalse, StrTrue, StrFalse, NumZero}

\* a slip that would compare with the boolean only
isFileDisabledByFrontmatter_BooleanOnly(fm, file) == fm[file] = BoolFalse

\* value === false || value === "false"
isFileDisabledByFrontmatter(fm, file) ==
    fm[file] = BoolFalse \/ fm[file] = StrFalse

\* the editor a leaf holds; open = FALSE when the leaf holds no markdown editor
NoEditor ==
    [open |-> FALSE, file |-> "", seen |-> Undefined, decorations |-> <<>>,
     field |-> [enabled |-> FALSE, allowedSet |-> {},
                frontmatterDisabled |-> FALSE]]

\* the frontmatter value of the file of the active markdown view, Undefined
\* when there is no such view
ActiveValue(fm, lvs, act) ==
    IF act # 0 /\ lvs[act].open THEN fm[lvs[act].file] ELSE Undefined

isActiveFileDisabledByFrontmatter(fm, lvs, act) ==
    IF act # 0 /\ lvs[act].open
    THEN isFileDisabledByFrontmatter(fm, lvs[act].file)
    ELSE FALSE

\* the text of the notes of the vault
FileText(file) == IF file = "a.md" THEN <<97, 233>> ELSE <<233, 97, 233>>

WholeDoc(d) == IF Len(d) = 0 THEN <<>> ELSE <<Range(0, Len(d))>>

\* an editor after its state field took the value f
EditorWith(e, f, value) ==
    [e EXCEPT !.field = f, !.seen = value,
              !.decorations =
                  buildDecorations(FileText(e.file), WholeDoc(FileText(e.file)),
                                   f).calls]

\* dispatchFrontmatterUpdate: one flag, computed from the active file, is
\* dispatched to the editor of every leaf
dispatchFrontmatterUpdate(fm, lvs, act) ==
    LET disabled == isActiveFileDisabledByFrontmatter(fm, lvs, act)
        effects == <<[type |-> "updateFrontmatterDisabled", value |-> disabled]>>
    IN  [l \in DOMAIN lvs |->
            IF lvs[l].open
            THEN EditorWith(lvs[l], FieldUpdate(lvs[l].field, effects),
                            ActiveValue(fm, lvs, act))
            ELSE lvs[l]]

\* source paths a render pass may carry: a note, none, a path that is no file
SourcePaths(files) == files \cup {"", "folder"}

\* html: the strings assigned to innerHTML, by the release that built markup
NotRendered ==
    [done |-> FALSE, path |-> "", el |-> <<>>, out |-> <<>>, html |-> <<>>]

\* the callback of the first release, which looked at the global flag only
PostProcessor_EnabledOnly(el, sourcePath, st, fm) ==
    IF ~st.enabled THEN el
    ELSE highlightNonAsciiInReading(el, buildAllowedSet(st.allowedChars))

\* the callback of registerMarkdownPostProcessor: the rendered tree after it
PostProcessor(el, sourcePath, st, fm) ==
    IF ~st.enabled THEN el
    ELSE IF sourcePath # "" /\ sourcePath \in Files
            /\ isFileDisabledByFrontmatter(fm, sourcePath)
    THEN el
    ELSE highlightNonAsciiInReading(el, buildAllowedSet(st.allowedChars))

\* rendered text nodes
NodeTexts == { Concat(cs) : cs \in CharSeqs(MaxNodeChars) }
Elements ==
    { <<TextNode(t)>> : t \in NodeTexts }
    \cup { <<TextNode(t), TextNode(u)>> :
             <<t, u>> \in { <<97>>, <<233>> } \X { <<97>>, <<233>> } }

LeafIds == 1..MaxLeaves

----------------------------------------------------------------------------
(* Initial states and actions *)

\* nothing persisted yet: loadData returns null, for which Object.assign
\* copies nothing, as for a record without keys.  A key of the data file is
\* absent (has = FALSE) or present with value v.
NoData ==
    [enabled |-> [has |-> FALSE, v |-> FALSE],
     allowedChars |-> [has |-> FALSE, v |-> <<>>],
     customCSS |-> [has |-> FALSE, v |-> ""],
     theme |-> [has |-> FALSE, v |-> ""]]

DEFAULT_CSS ==
    ".non-ascii-highlight {\n  background-color: rgba(255, 60, 60, 1);\n  padding: 1px;\n  border: 1px solid rgb(255, 255, 255);\n  border-radius: 2px;\n}"

DEFAULT_SETTINGS ==
    [enabled |-> TRUE, allowedChars |-> <<>>, customCSS |-> DEFAULT_CSS]

\* an assignment that would let the defaults overwrite the data
loadSettings_DefaultsLast(d) ==
    [enabled |-> DEFAULT_SETTINGS.enabled,
     allowedChars |-> DEFAULT_SETTINGS.allowedChars,
     customCSS |-> DEFAULT_SETTINGS.customCSS,
     theme |-> d.theme]

\* loadSettings: Object.assign({}, DEFAULT_SETTINGS, data).  A key of the data
\* overrides the default; a key that is no setting is copied along.
loadSettings(d) ==
    [enabled |-> IF d.enabled.has THEN d.enabled.v
                 ELSE DEFAULT_SETTINGS.enabled,
     allowedChars |-> IF d.allowedChars.has THEN d.allowedChars.v
                      ELSE DEFAULT_SETTINGS.allowedChars,
     customCSS |-> IF d.customCSS.has THEN d.customCSS.v
                   ELSE DEFAULT_SETTINGS.customCSS,
     theme |-> d.theme]

\* the record saveData(this.settings) writes
SavedRecord(st) ==
    [enabled |-> [has |-> TRUE, v |-> st.enabled],
     allowedChars |-> [has |-> TRUE, v |-> st.allowedChars],
     customCSS |-> [has |-> TRUE, v |-> st.customCSS],
     theme |-> st.theme]

\* updateCustomCSS: the text of the style element, settings.customCSS || ""
updateCustomCSS(st) == IF st.customCSS = "" THEN "" ELSE st.customCSS

\* no save in flight, no data file, an empty style element, no transaction
HostIdle ==
    /\ saves = [queue |-> <<>>, last |-> "none"]
    /\ data = NoData
    /\ styleEl = ""
    /\ tr = <<>>

EditorIdle ==
    /\ doc = <<>>
    /\ visibleRanges = <<>>
    /\ field = NoEditor.field
    /\ decorations = <<>>
    /\ lastBuild = NewBuilder

WorkspaceIdle ==
    /\ settings = [enabled |-> TRUE, allowedChars |-> <<>>]
    /\ frontmatter = [f \in Files |-> Undefined]
    /\ leaves = [l \in LeafIds |-> NoEditor]
    /\ active = 0
    /\ rendered = NotRendered

\* this.decorations = this.buildDecorations(view).  When the builder rejects
\* an add, buildDecorations throws, nothing is assigned and the host drops the
\* view plugin together with its decorations.
Rebuild(d, ranges, f) ==
    /\ lastBuild' = buildDecorations(d, ranges, f)
    /\ decorations' = IF lastBuild'.threw THEN <<>> ELSE lastBuild'.calls

\* new EditorView: settingsField.create, then the plugin's constructor
Init ==
    /\ doc \in Docs
    /\ visibleRanges \in ViewRanges(doc)
    /\ field \in Fields
    /\ lastBuild = buildDecorations(doc, visibleRanges, field)
    /\ decorations = IF lastBuild.threw THEN <<>> ELSE lastBuild.calls
    /\ WorkspaceIdle
    /\ HostIdle

\* the view plugin is alive: the editor is followed until its plugin is dropped
Alive == ~lastBuild.threw

\* e.is(toggleHighlight) || e.is(updateAllowlist) || e.is(updateFrontmatterDisabled)
IsConfigEffect(e) ==
    e.type \in {"toggleHighlight", "updateAllowlist", "updateFrontmatterDisabled"}

\* the update of the release before the frontmatter flag, which rebuilt for
\* the toggle and the allowlist effects only
PluginUpdate_TwoEffects(docChanged, viewportChanged, effects, d, ranges, f) ==
    IF \/ docChanged
       \/ viewportChanged
       \/ \E k \in 1..Len(effects) :
            effects[k].type \in {"toggleHighlight", "updateAllowlist"}
    THEN Rebuild(d, ranges, f)
    ELSE UNCHANGED <<decorations, lastBuild>>

\* highlightPlugin.update, for an update to document d, visible ranges
\* ranges and settings field f
PluginUpdate(docChanged, viewportChanged, effects, d, ranges, f) ==
    IF \/ docChanged
       \/ viewportChanged
       \/ \E k \in 1..Len(effects) : IsConfigEffect(effects[k])
    THEN Rebuild(d, ranges, f)
    ELSE UNCHANGED <<decorations, lastBuild>>

\* a transaction inserting one char: update.docChanged
InsertChar ==
    \E p \in Boundaries(doc), ch \in DocChars :
        /\ Alive
        /\ Len(ArrayFrom(doc)) < MaxChars
        /\ doc' = SubSeq(doc, 1, p) \o ch \o Slice(doc, p)
        /\ visibleRanges' = MapRanges(visibleRanges, <<>>, p, 0, Len(ch))
        /\ PluginUpdate(TRUE, visibleRanges' # visibleRanges, <<>>,
                        doc', visibleRanges', field)
        /\ UNCHANGED <<field, workspaceVars, hostVars>>

\* a transaction deleting one char: update.docChanged
DeleteChar ==
    \E p \in Boundaries(doc) :
        /\ Alive
        /\ p < Len(doc)
        /\ LET n == CharLenAt(doc, p)
           IN  /\ doc' = SubSeq(doc, 1, p) \o Slice(doc, p + n)
               /\ visibleRanges' = MapRanges(visibleRanges, <<>>, p, n, 0)
        /\ PluginUpdate(TRUE, visibleRanges' # visibleRanges, <<>>,
                        doc', visibleRanges', field)
        /\ UNCHANGED <<field, workspaceVars, hostVars>>

\* scrolling or folding: update.viewportChanged
ViewportChange ==
    \E ranges \in ViewRanges(doc) :
        /\ Alive
        /\ ranges # visibleRanges
        /\ visibleRanges' = ranges
        /\ PluginUpdate(FALSE, TRUE, <<>>, doc, visibleRanges', field)
        /\ UNCHANGED <<doc, field, workspaceVars, hostVars>>

\* editorCm.dispatch({effects}): a transaction carrying configuration effects
DispatchEffects ==
    \E effects \in EffectLists :
        /\ Alive
        /\ field' = FieldUpdate(field, effects)
        /\ PluginUpdate(FALSE, FALSE, effects, doc, visibleRanges, field')
        /\ UNCHANGED <<doc, visibleRanges, workspaceVars, hostVars>>

Next == InsertChar \/ DeleteChar \/ ViewportChange \/ DispatchEffects

Spec == Init /\ [][Next]_vars

----------------------------------------------------------------------------
(* The workspace: leaves, the active leaf, the metadata cache *)

\* a markdown editor is created in a leaf: settingsField.create reads
\* plugin.settings and the frontmatter of the file that is active then
OpenEditor(leafIds, files) ==
    \E l \in leafIds, file \in files :
        /\ ~leaves[l].open
        /\ leaves' =
             [leaves EXCEPT ![l] =
                 EditorWith([NoEditor EXCEPT !.open = TRUE, !.file = file],
                            FieldCreate(settings.enabled, settings.allowedChars,
                                isActiveFileDisabledByFrontmatter(
                                    frontmatter, leaves, active)),
                            ActiveValue(frontmatter, leaves, active))]
        /\ UNCHANGED <<settings, frontmatter, active, rendered, editorVars, hostVars>>

\* workspace.on("active-leaf-change"): another leaf is active
ActiveLeafChange(leafIds) ==
    \E l \in leafIds :
        /\ l # active
        /\ active' = l
        /\ leaves' = dispatchFrontmatterUpdate(frontmatter, leaves, l)
        /\ UNCHANGED <<settings, frontmatter, rendered, editorVars, hostVars>>

\* metadataCache.on("changed"): the frontmatter of a note changed; the host
\* renders the note's reading view anew
MetadataChanged(files) ==
    \E file \in files, value \in FmValues :
        /\ value # frontmatter[file]
        /\ frontmatter' = [frontmatter EXCEPT ![file] = value]
        /\ leaves' = dispatchFrontmatterUpdate(frontmatter', leaves, active)
        /\ rendered' = NotRendered
        /\ UNCHANGED <<settings, active, editorVars, hostVars>>

\* a render pass of the reading view runs the post processor on el
Render(els, paths) ==
    \E el \in els, path \in paths :
        /\ ~rendered.done
        /\ rendered' = [done |-> TRUE, path |-> path, el |-> el,
                        out |-> PostProcessor(el, path, settings, frontmatter),
                        html |-> <<>>]
        /\ UNCHANGED <<settings, frontmatter, leaves, active, editorVars, hostVars>>

\* the host discards the rendered block
DiscardRender ==
    /\ rendered.done
    /\ rendered' = NotRendered
    /\ UNCHANGED <<settings, frontmatter, leaves, active, editorVars, hostVars>>

\* several leaves on several notes, highlighting globally enabled or not
InitWs ==
    /\ EditorIdle
    /\ settings \in [enabled : BOOLEAN, allowedChars : {<<>>}]
    /\ frontmatter \in [Files -> FmValues]
    /\ leaves = [l \in LeafIds |-> NoEditor]
    /\ active = 0
    /\ rendered = NotRendered
    /\ HostIdle

NextWs ==
    \/ OpenEditor(LeafIds, Files)
    \/ ActiveLeafChange(LeafIds)
    \/ MetadataChanged(Files)

SpecWs == InitWs /\ [][NextWs]_vars

\* one note, in the editor of one leaf and in the reading view
InitRead ==
    /\ EditorIdle
    /\ settings \in [enabled : BOOLEAN, allowedChars : AllowStrings]
    /\ frontmatter \in { fm \in [Files -> FmValues] : fm["b.md"] = Undefined }
    /\ leaves = [l \in LeafIds |-> NoEditor]
    /\ active \in {0, 1}
    /\ rendered = NotRendered
    /\ HostIdle

NextRead ==
    \/ OpenEditor({1}, {"a.md"})
    \/ ActiveLeafChange({0, 1})
    \/ MetadataChanged({"a.md"})
    \/ Render(Elements, SourcePaths({"a.md"}))
    \/ DiscardRender

SpecRead == InitRead /\ [][NextRead]_vars

----------------------------------------------------------------------------
(* The reference scan of the specification (section 4.2) *)

\* the char of the char list that holds code unit offset p
RECURSIVE CharContaining(_, _)
CharContaining(chars, p) ==
    IF p < Len(Head(chars)) THEN Head(chars)
    ELSE CharContaining(Tail(chars), p - Len(Head(chars)))

\* the codepoint of d at offset p is above 0x7F and not in the allowlist
FlaggedAt(d, p, allowlist) ==
    LET ch == CharContaining(ArrayFrom(d), p)
    IN  CodePointAt0(ch) > 127 /\ ch \notin allowlist

\* maximal runs of flagged codepoints; start is the open run's start, or -1
RECURSIVE RefScan(_, _, _, _)
RefScan(chars, pos, start, allowlist) ==
    LET closed == IF start >= 0 THEN <<Range(start, pos)>> ELSE <<>>
    IN  IF chars = <<>> THEN closed
        ELSE LET ch == Head(chars)
                 next == pos + Len(ch)
             IN  IF CodePointAt0(ch) > 127 /\ ch \notin allowlist
                 THEN RefScan(Tail(chars), next,
                              IF start >= 0 THEN start ELSE pos, allowlist)
                 ELSE closed \o RefScan(Tail(chars), next, -1, allowlist)

\* the reference scans of the visible ranges, shifted and concatenated
RECURSIVE RefDecorations(_, _, _)
RefDecorations(d, ranges, allowlist) ==
    IF ranges = <<>> THEN <<>>
    ELSE LET r == Head(ranges)
         IN  RefScan(ArrayFrom(SliceString(d, r.from, r.to)), r.from, -1,
                     allowlist)
             \o RefDecorations(d, Tail(ranges), allowlist)

EffectiveOn == field.enabled /\ ~field.frontmatterDisabled

\* offsets of the document that lie in a visible range
VisibleOffsets ==
    UNION { r.from .. (r.to - 1) :
            r \in { visibleRanges[k] : k \in 1..Len(visibleRanges) } }

\* number of add calls of the latest build whose range holds offset p
Covering(p) ==
    Cardinality({ k \in 1..Len(lastBuild.calls) :
                    lastBuild.calls[k].from <= p /\ p < lastBuild.calls[k].to })

\* offset p lies between the two code units of a surrogate pair of doc
InsidePair(p) ==
    p > 0 /\ p < Len(doc) /\ IsHighSurrogate(doc[p]) /\ IsLowSurrogate(doc[p + 1])

----------------------------------------------------------------------------
(* Claims about the editing surface *)

\* C1: with enabled = true and frontmatterDisabled = false, the decoration
\* set built by buildDecorations is the concatenation, in ascending range
\* order, of the reference scan of each visible range, shifted by the
\* range's from.
C1_EditingSurfaceExact ==
    EffectiveOn =>
        /\ ~lastBuild.threw
        /\ decorations = RefDecorations(doc, visibleRanges, field.allowedSet)

\* C2: an offset of a scanned visible range lies inside exactly one emitted
\* decoration iff the codepoint at that offset is flagged, and inside none
\* otherwise.
C2_CoverageExact ==
    EffectiveOn =>
        \A p \in VisibleOffsets :
            Covering(p) = IF FlaggedAt(doc, p, field.allowedSet) THEN 1 ELSE 0

\* C3: no two decorations emitted by buildDecorations are adjacent or
\* overlapping: each starts strictly after the end of the one before.
C3_RunsMaximal ==
    \A k \in 1..(Len(lastBuild.calls) - 1) :
        lastBuild.calls[k].to < lastBuild.calls[k + 1].from

\* C4: every builder.add(start, end) made by buildDecorations has
\* start < end and start >= the end of the previously added decoration.
C4_SortedSubmission ==
    /\ \A k \in 1..Len(lastBuild.calls) :
           lastBuild.calls[k].from < lastBuild.calls[k].to
    /\ \A k \in 1..(Len(lastBuild.calls) - 1) :
           lastBuild.calls[k].to <= lastBuild.calls[k + 1].from

\* C5: neither the start nor the end of a decoration emitted by
\* buildDecorations falls between the two code units of a surrogate pair of
\* the document.
C5_BoundarySafe ==
    \A k \in 1..Len(lastBuild.calls) :
        /\ ~InsidePair(lastBuild.calls[k].from)
        /\ ~InsidePair(lastBuild.calls[k].to)


\* C8: in every state of an editor, if the settings field has enabled =
\* false or frontmatterDisabled = true, the stored decoration set is empty.
C8_DisabledMeansEmpty ==
    (~field.enabled \/ field.frontmatterDisabled) => decorations = <<>>

\* an editor disabled by frontmatter alone whose visible text has flagged
\* codepoints, and that shows none of them
C8_Witness ==
    /\ field.enabled /\ field.frontmatterDisabled
    /\ RefDecorations(doc, visibleRanges, field.allowedSet) # <<>>
    /\ decorations = <<>>

----------------------------------------------------------------------------
(* Claims about the suppression policy *)

\* the policy of section 4.5: global AND NOT disabling, where a value is
\* disabling iff it is the boolean false or the string "false"
Effective(global, perDocument) ==
    global /\ perDocument \notin {BoolFalse, StrFalse}

OpenLeaves == { l \in LeafIds : leaves[l].open }

\* C6: with the global flag enabled, after any sequence of editor creations,
\* active-leaf-change and metadata-changed events, each editor's
\* frontmatterDisabled equals the suppression policy of the document this
\* editor shows: a disabling document has no decorations, any other document
\* keeps its decorations, whichever document is active.
C6_PerDocumentSuppression ==
    settings.enabled =>
        \A l \in OpenLeaves :
            LET disabling == frontmatter[leaves[l].file] \in {BoolFalse, StrFalse}
            IN  /\ leaves[l].field.frontmatterDisabled = disabling
                /\ (leaves[l].decorations = <<>>) = disabling

\* some text node of the tree became a wrapper with a highlight span
Highlighted(out) ==
    \E k \in 1..Len(out) :
        /\ out[k].wrapper
        /\ \E j \in 1..Len(out[k].children) : out[k].children[j].highlight

\* some text node of el has a flagged codepoint
HasFlagged(el, allowlist) ==
    \E k \in 1..Len(el) :
        RefScan(ArrayFrom(el[k].text), 0, -1, allowlist) # <<>>

\* the per-document value of a render pass: that of the source note, absent
\* when the source path names no note
PerDocument(path) == IF path \in Files THEN frontmatter[path] ELSE Undefined

\* C7: effective-enabled = global AND NOT disabling, where the per-document
\* value is disabling iff it is the boolean false or the string "false":
\* a render pass over flagged text highlights iff the policy holds for the
\* source note's value, and an editor has decorations iff the policy holds
\* for the value its frontmatter flag was computed from.
C7_SuppressionPrecedence ==
    /\ (rendered.done /\ HasFlagged(rendered.el, buildAllowedSet(settings.allowedChars)))
         => (Highlighted(rendered.out)
               = Effective(settings.enabled, PerDocument(rendered.path)))
    /\ \A l \in OpenLeaves :
         (leaves[l].decorations # <<>>)
           = Effective(settings.enabled, leaves[l].seen)

\* globally enabled, the note's value is the string "false": the render pass
\* over flagged text and the editor on the note both show nothing
C7_Witness ==
    /\ settings.enabled
    /\ frontmatter["a.md"] = StrFalse
    /\ rendered.done /\ rendered.path = "a.md"
    /\ HasFlagged(rendered.el, buildAllowedSet(settings.allowedChars))
    /\ ~Highlighted(rendered.out)
    /\ leaves[1].open /\ leaves[1].seen = StrFalse
    /\ leaves[1].decorations = <<>>

----------------------------------------------------------------------------
(* Claims about the reading surface *)

\* the render pass ran highlightNonAsciiInReading
Annotated ==
    /\ rendered.done
    /\ Effective(settings.enabled, PerDocument(rendered.path))

\* the offsets of the highlight spans among the children of a wrapper
RECURSIVE HighlightRanges(_, _)
HighlightRanges(children, pos) ==
    IF children = <<>> THEN <<>>
    ELSE LET next == pos + Len(Head(children).text)
         IN  (IF Head(children).highlight THEN <<Range(pos, next)>> ELSE <<>>)
             \o HighlightRanges(Tail(children), next)

RECURSIVE ChildText(_)
ChildText(children) ==
    IF children = <<>> THEN <<>>
    ELSE Head(children).text \o ChildText(Tail(children))

NonAsciiNodes(el) ==
    { k \in 1..Len(el) : \E j \in 1..Len(el[k].text) : el[k].text[j] > 127 }

\* C9: every text node with a non-ASCII codepoint is replaced by a wrapper
\* whose children alternate between plain text and highlight spans, the
\* highlight spans being exactly the maximal runs of flagged codepoints in
\* document order, no two of them adjacent and no fragment empty.
C9_AnnotatorRuns ==
    Annotated =>
        \A k \in NonAsciiNodes(rendered.el) :
            LET children == rendered.out[k].children
            IN  /\ rendered.out[k].wrapper
                /\ \A j \in 1..Len(children) : Len(children[j].text) > 0
                /\ \A j \in 1..(Len(children) - 1) :
                       children[j].highlight # children[j + 1].highlight
                /\ HighlightRanges(children, 0)
                     = RefScan(ArrayFrom(rendered.el[k].text), 0, -1,
                               buildAllowedSet(settings.allowedChars))

\* a node with two flagged runs around plain text was annotated
C9_Witness ==
    /\ Annotated
    /\ Len(rendered.out) = 1 /\ rendered.out[1].wrapper
    /\ Len(HighlightRanges(rendered.out[1].children, 0)) = 2
    /\ Len(rendered.out[1].children) >= 4

\* C10: the texts of the plain fragments and highlight spans of a wrapper,
\* concatenated in order, are the text content of the node it replaced.
C10_AnnotatorRoundTrip ==
    Annotated =>
        /\ Len(rendered.out) = Len(rendered.el)
        /\ \A k \in 1..Len(rendered.el) :
              IF rendered.out[k].wrapper
              THEN ChildText(rendered.out[k].children) = rendered.el[k].text
              ELSE rendered.out[k] = rendered.el[k]

\* a wrapper of several fragments, one of them a surrogate pair
C10_Witness ==
    /\ Annotated
    /\ \E k \in 1..Len(rendered.out) :
         /\ rendered.out[k].wrapper
         /\ Len(rendered.out[k].children) >= 3
         /\ \E j \in 1..Len(rendered.out[k].children) :
              ~rendered.out[k].children[j].highlight
              /\ Len(rendered.out[k].children[j].text) >= 2

\* C11: when the post processor runs with plugin.settings.enabled = false,
\* or for a source note whose frontmatter is disabling, the rendered tree
\* is left unchanged: no text node is replaced, no highlight span created.
C11_DisabledRenderUnchanged ==
    (rendered.done
     /\ ~Effective(settings.enabled, PerDocument(rendered.path)))
        => rendered.out = rendered.el

\* globally enabled, the source note disables highlighting, the rendered
\* text has flagged codepoints, and the tree stayed as it was
C11_Witness ==
    /\ rendered.done /\ settings.enabled
    /\ rendered.path = "a.md" /\ frontmatter["a.md"] = BoolFalse
    /\ HasFlagged(rendered.el, buildAllowedSet(settings.allowedChars))
    /\ rendered.out = rendered.el

----------------------------------------------------------------------------
(* One text on both surfaces *)

\* a note whose text is shown whole by an editor, and rendered as one text
\* node by the reading view
InitBoth ==
    /\ settings \in [enabled : BOOLEAN, allowedChars : AllowStrings]
    /\ doc \in Docs
    /\ visibleRanges = WholeDoc(doc)
    /\ field = FieldCreate(settings.enabled, settings.allowedChars, FALSE)
    /\ lastBuild = buildDecorations(doc, visibleRanges, field)
    /\ decorations = IF lastBuild.threw THEN <<>> ELSE lastBuild.calls
    /\ frontmatter = [f \in Files |-> Undefined]
    /\ leaves = [l \in LeafIds |-> NoEditor]
    /\ active = 0
    /\ rendered = NotRendered
    /\ HostIdle

\* a render pass of the reading view over the text of the document
RenderDoc ==
    /\ ~rendered.done
    /\ rendered' = [done |-> TRUE, path |-> "", el |-> <<TextNode(doc)>>,
                    out |-> PostProcessor(<<TextNode(doc)>>, "", settings,
                                          frontmatter),
                    html |-> <<>>]
    /\ UNCHANGED <<settings, frontmatter, leaves, active, editorVars, hostVars>>

NextBoth == RenderDoc \/ DiscardRender

SpecBoth == InitBoth /\ [][NextBoth]_vars

\* the code unit offsets that a list of ranges covers
Offsets(ranges) ==
    UNION { ranges[k].from .. (ranges[k].to - 1) : k \in 1..Len(ranges) }

\* the code unit offsets of a rendered node that lie in a highlight span
SpanOffsets(node) ==
    IF node.wrapper THEN Offsets(HighlightRanges(node.children, 0)) ELSE {}

\* C12: for every text and every allowlist, the code unit offsets covered by
\* the decorations of an editor whose single visible range spans the whole
\* text are the offsets the reading view wraps in highlight spans for a text
\* node with the same text.
C12_SurfacesEquivalent ==
    (rendered.done /\ rendered.el = <<TextNode(doc)>>)
        => Offsets(decorations) = SpanOffsets(rendered.out[1])

----------------------------------------------------------------------------
(* The allowlist builder *)

MaxRawChars == 3    \* codepoints in the allowlist string of the settings tab

\* what the allowlist string is typed with: space, U+00A0, U+00E9, U+2003
\* (EM SPACE), U+1F600
RawChars == { <<32>>, <<160>>, <<233>>, <<8195>>, <<55357, 56832>> }

RawStrings ==
    { Concat(cs) : cs \in UNION { [1..m -> RawChars] : m \in 0..MaxRawChars } }

\* the texts of the notes opened: "a", "a b", " ", "é "
NbspDocs == { <<97>>, <<97, 160, 98>>, <<160>>, <<233, 160>> }

\* the plugin is loaded with an allowlist string, no editor is open
InitAllow ==
    /\ EditorIdle
    /\ settings \in [enabled : {TRUE}, allowedChars : RawStrings]
    /\ frontmatter = [f \in Files |-> Undefined]
    /\ leaves = [l \in LeafIds |-> NoEditor]
    /\ active = 0
    /\ rendered = NotRendered
    /\ HostIdle

\* new EditorView on a note: settingsField.create reads plugin.settings,
\* then the plugin's constructor builds the decorations
NewEditorView ==
    \E d \in NbspDocs :
        /\ ~field.enabled
        /\ doc' = d
        /\ visibleRanges' = WholeDoc(d)
        /\ field' = FieldCreate(settings.enabled, settings.allowedChars, FALSE)
        /\ Rebuild(doc', visibleRanges', field')
        /\ UNCHANGED <<workspaceVars, hostVars>>

\* the editor is closed
DestroyEditorView ==
    /\ field.enabled
    /\ doc' = <<>>
    /\ visibleRanges' = <<>>
    /\ field' = NoEditor.field
    /\ decorations' = <<>>
    /\ lastBuild' = NewBuilder
    /\ UNCHANGED <<workspaceVars, hostVars>>

NextAllow == NewEditorView \/ DestroyEditorView

SpecAllow == InitAllow /\ [][NextAllow]_vars

\* the codepoint of s that starts at offset p, as a string
CodepointAt(s, p) ==
    IF p + 2 <= Len(s) /\ IsHighSurrogate(s[p + 1]) /\ IsLowSurrogate(s[p + 2])
    THEN <<s[p + 1], s[p + 2]>>
    ELSE <<s[p + 1]>>

CodepointsOf(s) == { CodepointAt(s, p) : p \in Boundaries(s) \ {Len(s)} }

\* C13: buildAllowedSet returns exactly the set of the codepoints of the raw
\* string (a codepoint outside the BMP being one member) that are not white
\* space, plus U+00A0 if it occurs; duplicates collapse, the empty string
\* yields the empty set, and a text whose only non-ASCII codepoint is U+00A0
\* has no run when the allowlist string contains U+00A0.
C13_AllowlistBuilder ==
    field.enabled =>
        /\ field.allowedSet =
             { ch \in CodepointsOf(settings.allowedChars) :
                 ~IsWhiteSpace(CodePointAt0(ch)) \/ ch = <<160>> }
        /\ (settings.allowedChars = <<>> => field.allowedSet = {})
        /\ ((<<160>> \in CodepointsOf(settings.allowedChars)
             /\ \A k \in 1..Len(doc) : doc[k] <= 127 \/ doc[k] = 160)
              => decorations = <<>>)

\* the allowlist string held U+00A0, a space and U+1F600; the editor shows
\* "a b" without a decoration
C13_Witness ==
    /\ field.enabled
    /\ field.allowedSet = { <<160>>, <<55357, 56832>> }
    /\ <<32>> \in CodepointsOf(settings.allowedChars)
    /\ doc = <<97, 160, 98>>
    /\ decorations = <<>>

----------------------------------------------------------------------------
(* Claims about the recomputation of the editing surface *)

----------------------------------------------------------------------------
(* Settings changes: the toggle command and the settings tab *)

MaxPending == 2     \* saveData calls in flight

\* the effects refreshAllEditors dispatches
RefreshEffects(st) ==
    <<[type |-> "toggleHighlight", value |-> st.enabled],
      [type |-> "updateAllowlist", value |-> st.allowedChars]>>

\* the refresh of the first release, which dispatched the toggle only
refreshAllEditors_ToggleOnly(lvs, st) ==
    [l \in DOMAIN lvs |->
        IF lvs[l].open
        THEN EditorWith(lvs[l],
                        FieldUpdate(lvs[l].field, <<RefreshEffects(st)[1]>>),
                        lvs[l].seen)
        ELSE lvs[l]]

\* refreshAllEditors, first loop: the editors after the dispatch to every leaf
refreshAllEditors(lvs, st) ==
    [l \in DOMAIN lvs |->
        IF lvs[l].open
        THEN EditorWith(lvs[l], FieldUpdate(lvs[l].field, RefreshEffects(st)),
                        lvs[l].seen)
        ELSE lvs[l]]

\* refreshAllEditors, second loop: preview.rerender(true) runs the post
\* processor again on what the reading view shows
Rerender(r, st, fm) ==
    IF r.done THEN [r EXCEPT !.out = PostProcessor(r.el, r.path, st, fm)]
    ELSE r

\* a sequence without its k-th element
Without(q, k) == SubSeq(q, 1, k - 1) \o SubSeq(q, k + 1, Len(q))

\* await this.saveSettings(): saveData is called with the settings as they
\* are, and the callback waits for the promise
AwaitSave(st) ==
    /\ Len(saves.queue) < MaxPending
    /\ saves' = [saves EXCEPT !.queue = Append(@, SavedRecord(st))]
    /\ UNCHANGED <<frontmatter, leaves, active, rendered, editorVars,
                   data, styleEl, tr>>

\* the command "Toggle non-ASCII highlighting", up to its await
ToggleCommand ==
    /\ settings' = [settings EXCEPT !.enabled = ~settings.enabled]
    /\ AwaitSave(settings')

\* onChange of the toggle "Enable highlighting", up to its await
EnabledChange ==
    \E value \in BOOLEAN :
        /\ settings' = [settings EXCEPT !.enabled = value]
        /\ AwaitSave(settings')

\* onChange of the text area "Allowed characters", up to its await
AllowedCharsChange ==
    \E value \in AllowStrings :
        /\ settings' = [settings EXCEPT !.allowedChars = value]
        /\ AwaitSave(settings')

\* a saveData promise resolves: the data is written and the callback that
\* waited goes on with refreshAllEditors()
SaveResolves ==
    \E k \in 1..Len(saves.queue) :
        /\ data' = saves.queue[k]
        /\ saves' = [queue |-> Without(saves.queue, k), last |-> "ok"]
        /\ leaves' = refreshAllEditors(leaves, settings)
        /\ rendered' = Rerender(rendered, settings, frontmatter)
        /\ UNCHANGED <<settings, frontmatter, active, editorVars, styleEl, tr>>

\* a saveData promise rejects: the callback that waited ends there
SaveRejects ==
    \E k \in 1..Len(saves.queue) :
        /\ saves' = [queue |-> Without(saves.queue, k), last |-> "failed"]
        /\ UNCHANGED <<settings, frontmatter, leaves, active, rendered,
                       editorVars, data, styleEl, tr>>

\* the text node the reading view shows: U+00E9, U+1F600
CfgElements == { <<TextNode(<<233, 55357, 56832>>)>> }

\* the plugin after onload without a data file
InitCfg ==
    /\ EditorIdle
    /\ settings = loadSettings(NoData)
    /\ frontmatter = [f \in Files |-> Undefined]
    /\ leaves = [l \in LeafIds |-> NoEditor]
    /\ active = 0
    /\ rendered = NotRendered
    /\ HostIdle

NextCfg ==
    \/ ToggleCommand
    \/ EnabledChange
    \/ AllowedCharsChange
    \/ SaveResolves
    \/ SaveRejects
    \/ OpenEditor({1, 2}, {"a.md"})
    \/ Render(CfgElements, {""})
    \/ DiscardRender

SpecCfg == InitCfg /\ [][NextCfg]_vars

\* some open editor does not hold what plugin.settings holds
Stale ==
    \E l \in OpenLeaves :
        \/ leaves[l].field.enabled # settings.enabled
        \/ leaves[l].field.allowedSet # buildAllowedSet(settings.allowedChars)

\* C15: each trigger (enable toggle, allowlist edit, toggle command) fully
\* completes (plugin.settings changed, the new values dispatched to all
\* editors, the reading views rendered anew) before the next event is
\* processed: while a trigger's callback has not ended, or plugin.settings
\* holds a value the open editors do not hold, the only step taken is the end
\* of that callback.
C15_RunToCompletion ==
    [][(saves.queue # <<>> \/ Stale)
         => Len(saves'.queue) < Len(saves.queue)]_vars

\* C16: once a settings change (toggle command, enable toggle, allowlist
\* edit) whose save succeeds has run to completion, under every interleaving
\* of overlapping changes, every open editor's settings field has enabled =
\* plugin.settings.enabled and allowedSet =
\* buildAllowedSet(plugin.settings.allowedChars).
C16_PropagationReachesEveryEditor ==
    (saves.queue = <<>> /\ saves.last = "ok") => ~Stale

\* two editors, highlighting switched off and U+1F600 allowed, the save
\* succeeded: both editors hold the new values
C16_Witness ==
    /\ saves.queue = <<>> /\ saves.last = "ok"
    /\ ~settings.enabled /\ settings.allowedChars # <<>>
    /\ \A l \in {1, 2} :
         /\ leaves[l].open
         /\ ~leaves[l].field.enabled
         /\ leaves[l].field.allowedSet = { <<55357, 56832>> }

----------------------------------------------------------------------------
(* Loading the settings *)

\* a key of the data file: absent, or present with one of vals
Key(vals, none) ==
    { [has |-> FALSE, v |-> none] } \cup { [has |-> TRUE, v |-> x] : x \in vals }

CssValues == { "", DEFAULT_CSS, ".non-ascii-highlight { color: red; }" }

\* the records loadData may return; "theme" is a key that is no setting
DataFiles ==
    [enabled : Key(BOOLEAN, FALSE),
     allowedChars : Key(AllowStrings, <<>>),
     customCSS : Key(CssValues, ""),
     theme : Key({"dark"}, "")]

\* the plugin after onload: loadSettings, then updateCustomCSS
InitLoad ==
    /\ EditorIdle
    /\ data \in DataFiles
    /\ settings = loadSettings(data)
    /\ styleEl = updateCustomCSS(settings)
    /\ saves = [queue |-> <<>>, last |-> "none"]
    /\ tr = <<>>
    /\ frontmatter = [f \in Files |-> Undefined]
    /\ leaves = [l \in LeafIds |-> NoEditor]
    /\ active = 0
    /\ rendered = NotRendered

NextLoad ==
    \/ OpenEditor({1}, {"a.md"})
    \/ Render(CfgElements, {""})
    \/ DiscardRender

SpecLoad == InitLoad /\ [][NextLoad]_vars

\* the persisted value of a key when the key is present, else the default
Persisted(key, default) == IF data[key].has THEN data[key].v ELSE default

\* C17: for every persisted record, including none, loadSettings yields
\* settings in which each of enabled, allowedChars and customCSS is the
\* persisted value when the key is present and otherwise its default (true,
\* "", the default stylesheet); no other key influences detection,
\* suppression or styling, which are what these three values give.
C17_SettingsDefaulting ==
    LET enabled == Persisted("enabled", TRUE)
        allowedChars == Persisted("allowedChars", <<>>)
        customCSS == Persisted("customCSS", DEFAULT_CSS)
    IN  /\ settings.enabled = enabled
        /\ settings.allowedChars = allowedChars
        /\ settings.customCSS = customCSS
        /\ styleEl = customCSS
        /\ \A l \in OpenLeaves :
             leaves[l].field = FieldCreate(enabled, allowedChars, FALSE)
        /\ rendered.done =>
             rendered.out =
                 PostProcessor(rendered.el, rendered.path,
                               [enabled |-> enabled,
                                allowedChars |-> allowedChars], frontmatter)

\* a data file without "enabled", with an allowlist, an empty stylesheet and
\* a foreign key: highlighting is on, U+1F600 is allowed, the editor and the
\* reading view show U+00E9 highlighted
C17_Witness ==
    /\ ~data.enabled.has /\ data.allowedChars.has /\ data.theme.has
    /\ data.allowedChars.v # <<>>
    /\ data.customCSS.has /\ data.customCSS.v = "" /\ styleEl = ""
    /\ settings.enabled
    /\ leaves[1].open /\ leaves[1].field.allowedSet = { <<55357, 56832>> }
    /\ leaves[1].decorations # <<>>
    /\ rendered.done /\ Highlighted(rendered.out)

----------------------------------------------------------------------------
(* The annotator that built a markup string (src/src/global.d.ts) *)

MaxMarkupChars == 3     \* codepoints in a text node with reserved characters

\* the entity escapeHtml writes for &, <, > and "
Entity(u) ==
    CASE u = 38 -> <<38, 97, 109, 112, 59>>
      [] u = 60 -> <<38, 108, 116, 59>>
      [] u = 62 -> <<38, 103, 116, 59>>
      [] u = 34 -> <<38, 113, 117, 111, 116, 59>>

\* str.replace(/u/g, rep) for a pattern of one code unit
RECURSIVE ReplaceAll(_, _, _)
ReplaceAll(str, u, rep) ==
    IF str = <<>> THEN <<>>
    ELSE (IF Head(str) = u THEN rep ELSE <<Head(str)>>)
         \o ReplaceAll(Tail(str), u, rep)

\* the first release, which put the text into the markup as it was
escapeHtml_Raw(str) == str

escapeHtml(str) ==
    ReplaceAll(ReplaceAll(ReplaceAll(ReplaceAll(str, 38, Entity(38)),
                                     60, Entity(60)),
                          62, Entity(62)),
               34, Entity(34))

\* <span class="non-ascii-highlight"> and </span>
SpanOpen ==
    <<60, 115, 112, 97, 110, 32, 99, 108, 97, 115, 115, 61, 34, 110, 111, 110,
      45, 97, 115, 99, 105, 105, 45, 104, 105, 103, 104, 108, 105, 103, 104,
      116, 34, 62>>
SpanClose == <<60, 47, 115, 112, 97, 110, 62>>

\* the loop over Array.from(node.textContent) that appends to html, then
\* the flush of what remains
RECURSIVE MarkupChars(_, _, _, _, _)
MarkupChars(chars, inHighlight, buffer, html, allowedSet) ==
    LET span == SpanOpen \o escapeHtml(buffer) \o SpanClose
    IN  IF chars = <<>>
        THEN html \o (IF inHighlight THEN span ELSE escapeHtml(buffer))
        ELSE LET ch == Head(chars)
             IN  IF ShouldHighlight(ch, allowedSet)
                 THEN IF ~inHighlight
                      THEN MarkupChars(Tail(chars), TRUE, ch,
                                       html \o escapeHtml(buffer), allowedSet)
                      ELSE MarkupChars(Tail(chars), TRUE, buffer \o ch, html,
                                       allowedSet)
                 ELSE IF inHighlight
                      THEN MarkupChars(Tail(chars), FALSE, ch, html \o span,
                                       allowedSet)
                      ELSE MarkupChars(Tail(chars), FALSE, buffer \o ch, html,
                                       allowedSet)

StartsWith(s, p) == Len(s) >= Len(p) /\ SubSeq(s, 1, Len(p)) = p

\* wrapper.innerHTML = html: the children the host parses out of the string.
\* The two tags of the annotator open and close a highlight span, the four
\* entities are decoded, any other "<" begins markup that is not the
\* annotator's (a child with foreign = TRUE).
RECURSIVE InnerHtml(_, _, _, _)
InnerHtml(s, children, inSpan, buffer) ==
    LET flushed ==
            IF buffer = <<>> /\ ~inSpan THEN children
            ELSE Append(children, [highlight |-> inSpan, text |-> buffer,
                                   foreign |-> FALSE])
        decoded == { u \in {38, 60, 62, 34} : StartsWith(s, Entity(u)) }
    IN  IF s = <<>> THEN flushed
        ELSE IF ~inSpan /\ StartsWith(s, SpanOpen)
        THEN InnerHtml(Slice(s, Len(SpanOpen)), flushed, TRUE, <<>>)
        ELSE IF inSpan /\ StartsWith(s, SpanClose)
        THEN InnerHtml(Slice(s, Len(SpanClose)), flushed, FALSE, <<>>)
        ELSE IF Head(s) = 60
        THEN InnerHtml(Tail(s),
                       Append(flushed, [highlight |-> FALSE, text |-> <<>>,
                                        foreign |-> TRUE]),
                       inSpan, <<>>)
        ELSE IF decoded # {}
        THEN LET u == CHOOSE x \in decoded : TRUE
             IN  InnerHtml(Slice(s, Len(Entity(u))), children, inSpan,
                           Append(buffer, u))
        ELSE InnerHtml(Tail(s), children, inSpan, Append(buffer, Head(s)))

\* the post processor of that release: the markup of each text node with a
\* non-ASCII codepoint, and the tree after the replacement
MarkupPostProcessor(el, st) ==
    LET touched(k) == st.enabled /\ Len(el[k].text) > 0 /\ HasNonAscii(el[k].text)
        html == [k \in 1..Len(el) |->
                    IF touched(k)
                    THEN MarkupChars(ArrayFrom(el[k].text), FALSE, <<>>, <<>>,
                                     buildAllowedSet(st.allowedChars))
                    ELSE <<>>]
    IN  [html |-> html,
         out |-> [k \in 1..Len(el) |->
                    IF touched(k) /\ el[k].parent
                    THEN WrapperNode(InnerHtml(html[k], <<>>, FALSE, <<>>))
                    ELSE el[k]]]

\* text nodes written with &, <, >, ", "a", U+00E9 and U+1F600
MarkupElements ==
    { <<TextNode(Concat(cs))>> :
        cs \in UNION { [1..m -> { <<38>>, <<60>>, <<62>>, <<34>>, <<97>>,
                                  <<233>>, <<55357, 56832>> }] :
                       m \in 0..MaxMarkupChars } }

InitMarkup ==
    /\ EditorIdle
    /\ settings \in [enabled : {TRUE}, allowedChars : AllowStrings]
    /\ frontmatter = [f \in Files |-> Undefined]
    /\ leaves = [l \in LeafIds |-> NoEditor]
    /\ active = 0
    /\ rendered = NotRendered
    /\ HostIdle

\* a render pass under the release that built markup
RenderMarkup ==
    \E el \in MarkupElements :
        /\ ~rendered.done
        /\ rendered' = [done |-> TRUE, path |-> "", el |-> el,
                        out |-> MarkupPostProcessor(el, settings).out,
                        html |-> MarkupPostProcessor(el, settings).html]
        /\ UNCHANGED <<settings, frontmatter, leaves, active, editorVars, hostVars>>

NextMarkup ==
    \/ Render(MarkupElements, {""})
    \/ RenderMarkup
    \/ DiscardRender

SpecMarkup == InitMarkup /\ [][NextMarkup]_vars

\* the plain and the highlighted fragments of a text, given its runs
RECURSIVE Fragments(_, _, _)
Fragments(text, runs, pos) ==
    LET plain(to) ==
            IF to > pos
            THEN <<[highlight |-> FALSE, text |-> SubSeq(text, pos + 1, to)]>>
            ELSE <<>>
    IN  IF runs = <<>> THEN plain(Len(text))
        ELSE plain(Head(runs).from)
             \o <<[highlight |-> TRUE,
                   text |-> SubSeq(text, Head(runs).from + 1, Head(runs).to)]>>
             \o Fragments(text, Tail(runs), Head(runs).to)

\* number of places of s that hold code unit u
Count(s, u) == Cardinality({ j \in 1..Len(s) : s[j] = u })

\* C18: for every text node content, also with &, <, > and ", the wrapper
\* holds the plain fragments and the non-ascii-highlight spans of the text
\* and no other element; where the annotator builds a markup string, each
\* fragment went through escapeHtml: the string has no <, > or " besides
\* those of the annotator's own span tags, each & in it starts an entity, and
\* the host parses the fragments back exactly.
C18_NoMarkupInjection ==
    rendered.done =>
        \A k \in NonAsciiNodes(rendered.el) :
            LET children == rendered.out[k].children
                expected ==
                    Fragments(rendered.el[k].text,
                              RefScan(ArrayFrom(rendered.el[k].text), 0, -1,
                                      buildAllowedSet(settings.allowedChars)),
                              0)
                spans == Cardinality({ j \in 1..Len(expected) :
                                         expected[j].highlight })
            IN  /\ rendered.out[k].wrapper
                /\ Len(children) = Len(expected)
                /\ \A j \in 1..Len(children) :
                     /\ children[j].highlight = expected[j].highlight
                     /\ children[j].text = expected[j].text
                /\ rendered.html # <<>> =>
                     LET html == rendered.html[k]
                     IN  /\ \A j \in 1..Len(children) : ~children[j].foreign
                         /\ Count(html, 60) = 2 * spans
                         /\ Count(html, 62) = 2 * spans
                         /\ Count(html, 34) = 2 * spans
                         /\ \A j \in 1..Len(html) :
                              html[j] = 38 =>
                                \E u \in {38, 60, 62, 34} :
                                    StartsWith(Slice(html, j - 1), Entity(u))

\* the text "<", U+00E9, "&" went through the markup string: an escaped
\* "<", one span, an escaped "&"
C18_Witness ==
    /\ rendered.done /\ rendered.html # <<>>
    /\ rendered.el = <<TextNode(<<60, 233, 38>>)>>
    /\ rendered.html[1] =
         Entity(60) \o SpanOpen \o <<233>> \o SpanClose \o Entity(38)
    /\ Len(rendered.out[1].children) = 3

----------------------------------------------------------------------------
(* Folded documents and detached text nodes *)

MaxFoldChars == 5       \* codepoints in a document with folded text

\* documents written with U+00E9 and U+1F600
FoldDocs ==
    { Concat(cs) :
        cs \in UNION { [1..m -> { <<233>>, <<55357, 56832>> }] :
                       m \in 0..MaxFoldChars } }

\* trees of two text nodes, U+00E9 and "a" U+00E9, each with or without a
\* parent
DetachElements ==
    { <<[TextNode(<<233>>) EXCEPT !.parent = p],
        [TextNode(<<97, 233>>) EXCEPT !.parent = q]>> :
        <<p, q>> \in BOOLEAN \X BOOLEAN }

\* an editor that shows a document whole, highlighting enabled
InitFold ==
    /\ doc \in FoldDocs
    /\ visibleRanges = WholeDoc(doc)
    /\ field = FieldCreate(TRUE, <<>>, FALSE)
    /\ lastBuild = buildDecorations(doc, visibleRanges, field)
    /\ decorations = IF lastBuild.threw THEN <<>> ELSE lastBuild.calls
    /\ WorkspaceIdle
    /\ HostIdle

NextFold ==
    \/ ViewportChange
    \/ Render(DetachElements, {""})
    \/ DiscardRender

SpecFold == InitFold /\ [][NextFold]_vars

\* C19: a collected text node that has no parent when the annotator reaches
\* it is left as it is and nothing is thrown; and buildDecorations never
\* throws into the host's update, whatever the document, the allowlist and
\* the visible ranges, so that no partly built decoration set is installed.
C19_NoThrow ==
    /\ rendered.done =>
         \A k \in 1..Len(rendered.el) :
             ~rendered.el[k].parent => rendered.out[k] = rendered.el[k]
    /\ ~lastBuild.threw
    /\ decorations = lastBuild.calls

----------------------------------------------------------------------------
(* The transactions of one editor and its settings field *)

MaxFieldChars == 2      \* codepoints in the document of the followed editor

\* the effects a transaction may carry: none, one effect, or the two of
\* refreshAllEditors
TransactionEffects ==
    {<<>>}
    \cup { <<e>> : e \in ToggleEffects \cup AllowlistEffects \cup FrontmatterEffects }
    \cup { RefreshEffects(st) :
             st \in [enabled : BOOLEAN, allowedChars : AllowStrings] }

\* an editor on an empty note
InitField ==
    /\ doc = <<>>
    /\ visibleRanges = <<>>
    /\ field \in Fields
    /\ lastBuild = buildDecorations(doc, visibleRanges, field)
    /\ decorations = lastBuild.calls
    /\ WorkspaceIdle
    /\ HostIdle

\* a transaction that inserts or deletes one char and carries no effect
EditTransaction ==
    \E p \in Boundaries(doc), ch \in DocChars \cup {<<>>} :
        /\ Alive
        /\ IF ch = <<>> THEN p < Len(doc)
           ELSE Len(ArrayFrom(doc)) < MaxFieldChars
        /\ LET del == IF ch = <<>> THEN CharLenAt(doc, p) ELSE 0
           IN  /\ doc' = SubSeq(doc, 1, p) \o ch \o Slice(doc, p + del)
               /\ visibleRanges' = MapRanges(visibleRanges, <<>>, p, del, Len(ch))
        /\ tr' = <<>>
        /\ PluginUpdate(TRUE, visibleRanges' # visibleRanges, tr',
                        doc', visibleRanges', field)
        /\ UNCHANGED <<field, workspaceVars, saves, data, styleEl>>

\* a transaction of scrolling or folding, which carries no effect
ViewportTransaction ==
    \E ranges \in ViewRanges(doc) :
        /\ Alive
        /\ ranges # visibleRanges
        /\ visibleRanges' = ranges
        /\ tr' = <<>>
        /\ PluginUpdate(FALSE, TRUE, tr', doc, visibleRanges', field)
        /\ UNCHANGED <<doc, field, workspaceVars, saves, data, styleEl>>

\* a transaction that moves the selection only
SelectionChange ==
    /\ Alive
    /\ tr' = <<>>
    /\ PluginUpdate(FALSE, FALSE, tr', doc, visibleRanges, field)
    /\ UNCHANGED <<doc, visibleRanges, field, workspaceVars, saves, data,
                   styleEl>>

\* a transaction that carries effects only
EffectTransaction ==
    \E effects \in TransactionEffects \ {<<>>} :
        /\ Alive
        /\ tr' = effects
        /\ field' = FieldUpdate(field, effects)
        /\ PluginUpdate(FALSE, FALSE, effects, doc, visibleRanges, field')
        /\ UNCHANGED <<doc, visibleRanges, workspaceVars, saves, data, styleEl>>

NextField ==
    \/ EditTransaction
    \/ ViewportTransaction
    \/ SelectionChange
    \/ EffectTransaction

SpecField == InitField /\ [][NextField]_vars

\* the effects carry an effect of the type
Carries(effects, type) ==
    \E k \in 1..Len(effects) : effects[k].type = type

\* C20: a transaction without any of the three effects (an edit, a viewport
\* change, a selection change) leaves the settings field unchanged;
\* toggleHighlight changes only enabled, updateAllowlist only allowedSet,
\* updateFrontmatterDisabled only frontmatterDisabled; so the effects of
\* refreshAllEditors never change frontmatterDisabled and the effect of
\* dispatchFrontmatterUpdate never changes enabled or allowedSet.
C20_FieldFrame ==
    [][/\ ~Carries(tr', "toggleHighlight") => field'.enabled = field.enabled
       /\ ~Carries(tr', "updateAllowlist")
            => field'.allowedSet = field.allowedSet
       /\ ~Carries(tr', "updateFrontmatterDisabled")
            => field'.frontmatterDisabled = field.frontmatterDisabled]_vars

\* a toggleHighlight(false) alone reached a field that allowed U+1F600 and
\* was disabled by frontmatter: both are as they were
C20_Witness ==
    /\ tr = <<[type |-> "toggleHighlight", value |-> FALSE]>>
    /\ ~field.enabled
    /\ field.frontmatterDisabled
    /\ field.allowedSet = { <<55357, 56832>> }
    /\ doc # <<>>

----------------------------------------------------------------------------
(* A decoration and the visible range it was found in *)

\* the add call c lies inside the visible range r
InsideRange(c, r) == r.from <= c.from /\ c.from < c.to /\ c.to <= r.to

\* C22: every decoration [start, end) that buildDecorations adds while
\* scanning a visible range [from, to) satisfies from <= start < end <= to,
\* so that none extends past the end of the document or into hidden text.
C22_InsideVisibleRange ==
    \A k \in 1..Len(lastBuild.calls) :
        /\ lastBuild.calls[k].to <= Len(doc)
        /\ \E r \in 1..Len(visibleRanges) :
               InsideRange(lastBuild.calls[k], visibleRanges[r])

----------------------------------------------------------------------------
(* A settings change whose save fails *)

\* C24: if saveData rejects while the toggle command or a settings-tab
\* change is in progress, then once that callback has ended plugin.settings
\* and every open editor's settings field still agree on enabled and on the
\* allowlist, so that the editing surface and the reading surface resolve
\* the same effective-enabled value.
C24_ConsistentAfterFailedSave ==
    (saves.queue = <<>> /\ saves.last = "failed") => ~Stale

----------------------------------------------------------------------------
(* One text under two allowlists *)

MaxMonoChars == 5       \* codepoints in a document shown whole

\* short notes, shown whole
MonoDocs == { Concat(cs) : cs \in CharSeqs(MaxMonoChars) }

\* an editor that shows a short note whole, under any settings
InitMono ==
    /\ doc \in MonoDocs
    /\ visibleRanges = WholeDoc(doc)
    /\ field \in Fields
    /\ lastBuild = buildDecorations(doc, visibleRanges, field)
    /\ decorations = IF lastBuild.threw THEN <<>> ELSE lastBuild.calls
    /\ WorkspaceIdle
    /\ HostIdle

\* the settings of the editor change, its text does not
NextMono == DispatchEffects

SpecMono == InitMono /\ [][NextMono]_vars

\* C23: for every text and every two allowlists A and B with A a subset of
\* B, the offsets covered by the decorations buildDecorations produces with B
\* are a subset of those it produces with A: adding a character to the
\* allowlist never highlights an offset that was not highlighted before.
C23_AllowlistMonotone ==
    [][(/\ doc' = doc /\ visibleRanges' = visibleRanges
        /\ field.enabled /\ ~field.frontmatterDisabled
        /\ field'.enabled /\ ~field'.frontmatterDisabled
        /\ field.allowedSet \subseteq field'.allowedSet)
         => Offsets(decorations') \subseteq Offsets(decorations)]_vars

----------------------------------------------------------------------------
(* Transactions as values: the editor after one event, and after two *)

\* the editor as one value
EditorState ==
    [doc |-> doc, visibleRanges |-> visibleRanges, field |-> field,
     decorations |-> decorations, lastBuild |-> lastBuild]

\* an event: an edit replacing del code units at p by ins, a viewport
\* change to ranges, or a transaction carrying effects
Event(type, p, del, ins, ranges, effects) ==
    [type |-> type, p |-> p, del |-> del, ins |-> ins, ranges |-> ranges,
     effects |-> effects]

\* the whole document, or the document with one char in its middle folded
FoldRanges(d) ==
    { WholeDoc(d) } \cup
    { <<Range(0, p), Range(p + CharLenAt(d, p), Len(d))>> :
        p \in { q \in Boundaries(d) :
                  q > 0 /\ q < Len(d) /\ q + CharLenAt(d, q) < Len(d) } }

\* the events an editor with document d and visible ranges rs may receive
Events(d, rs) ==
    { Event("edit", p, 0, <<233>>, <<>>, <<>>) :
        p \in { q \in Boundaries(d) : Len(ArrayFrom(d)) < MaxFoldChars } }
    \cup { Event("edit", p, CharLenAt(d, p), <<>>, <<>>, <<>>) :
             p \in Boundaries(d) \ {Len(d)} }
    \cup { Event("viewport", 0, 0, <<>>, ranges, <<>>) :
             ranges \in FoldRanges(d) \ {rs} }
    \cup { Event("effects", 0, 0, <<>>, <<>>, effects) :
             effects \in TransactionEffects \ {<<>>} }

\* the editor after the transaction of event ev: settingsField.update, then
\* highlightPlugin.update unless the host has dropped the plugin
Transaction(e, ev) ==
    LET d == IF ev.type = "edit"
             THEN SubSeq(e.doc, 1, ev.p) \o ev.ins \o Slice(e.doc, ev.p + ev.del)
             ELSE e.doc
        ranges == IF ev.type = "edit"
                  THEN MapRanges(e.visibleRanges, <<>>, ev.p, ev.del, Len(ev.ins))
                  ELSE IF ev.type = "viewport" THEN ev.ranges
                  ELSE e.visibleRanges
        f == FieldUpdate(e.field, ev.effects)
        rebuild == \/ ev.type = "edit"
                   \/ ranges # e.visibleRanges
                   \/ \E k \in 1..Len(ev.effects) : IsConfigEffect(ev.effects[k])
        b == buildDecorations(d, ranges, f)
    IN  [doc |-> d, visibleRanges |-> ranges, field |-> f,
         decorations |-> IF e.lastBuild.threw THEN <<>>
                         ELSE IF ~rebuild THEN e.decorations
                         ELSE IF b.threw THEN <<>> ELSE b.calls,
         lastBuild |-> IF e.lastBuild.threw \/ ~rebuild THEN e.lastBuild ELSE b]

\* the editor receives an event
Transact ==
    \E ev \in Events(doc, visibleRanges) :
        LET e == Transaction(EditorState, ev)
        IN  /\ doc' = e.doc
            /\ visibleRanges' = e.visibleRanges
            /\ field' = e.field
            /\ decorations' = e.decorations
            /\ lastBuild' = e.lastBuild
            /\ UNCHANGED <<workspaceVars, hostVars>>

\* an editor that shows a document whole, under any settings
InitOrder ==
    /\ doc \in FoldDocs
    /\ visibleRanges = WholeDoc(doc)
    /\ field \in Fields
    /\ lastBuild = buildDecorations(doc, visibleRanges, field)
    /\ decorations = IF lastBuild.threw THEN <<>> ELSE lastBuild.calls
    /\ WorkspaceIdle
    /\ HostIdle

NextOrder == Transact

SpecOrder == InitOrder /\ [][NextOrder]_vars

\* the types of an event: edit, viewport, or the types of its effects
EventTypes(ev) ==
    IF ev.type = "effects"
    THEN { ev.effects[k].type : k \in 1..Len(ev.effects) }
    ELSE { ev.type }

\* event b can follow event a in editor e
CanFollow(e, a, b) ==
    LET ea == Transaction(e, a) IN b \in Events(ea.doc, ea.visibleRanges)

\* editors x and y hold the same settings field and the same decorations
SameOutcome(x, y) == x.field = y.field /\ x.decorations = y.decorations

\* C21: for every editor state, events of different types (a document
\* edit, a viewport change, a toggleHighlight, an updateAllowlist, an
\* updateFrontmatterDisabled), applied in either order, or as effects in
\* either order inside one transaction, end in the same settings field and
\* the same decoration set; and rebuilding from the same document, visible
\* ranges and settings field gives the decoration set again.
C21_OrderIndependent ==
    LET e == EditorState
        evs == Events(doc, visibleRanges)
    IN  /\ \A a, b \in evs :
              (/\ EventTypes(a) \cap EventTypes(b) = {}
               /\ CanFollow(e, a, b) /\ CanFollow(e, b, a))
                => LET ab == Transaction(Transaction(e, a), b)
                       ba == Transaction(Transaction(e, b), a)
                   IN  (ab.doc = ba.doc /\ ab.visibleRanges = ba.visibleRanges)
                         => SameOutcome(ab, ba)
        /\ \A a, b \in { ev \in evs : ev.type = "effects" } :
              EventTypes(a) \cap EventTypes(b) = {}
                => SameOutcome(
                     Transaction(e, [a EXCEPT !.effects = a.effects \o b.effects]),
                     Transaction(e, [a EXCEPT !.effects = b.effects \o a.effects]))
        /\ Alive => decorations = buildDecorations(doc, visibleRanges, field).calls

====
